---- MODULE Spec2Model ----
(***************************************************************************)
(* Vox2Words: the transcription pipeline of App.tsx (file selection,       *)
(* submit, reset, the staged asynchronous run) and of transcribeLyrics     *)
(* (services/geminiService).                                               *)
(*                                                                         *)
(* A string is modelled as the sequence of its pieces: a piece is either   *)
(* one whitespace character or a run of text that neither starts nor ends  *)
(* with whitespace.  The empty string is <<>>, concatenation is \o.        *)
(* A nullable value (File | null, string | null, string | undefined) is    *)
(* Null or Some(v).                                                        *)
(*                                                                         *)
(* One step is a handler, or the part of handleSubmit between two awaits:  *)
(* the state updates it makes are rendered together, and the cleanup of    *)
(* the audioSrc effect runs with that render.  A change event without a    *)
(* file (files.length = 0) changes nothing and is left out.                *)
(***************************************************************************)
EXTENDS Naturals, Sequences, FiniteSets, TLC

VARIABLES
    file,           \* useState<File | null>                    (App.tsx:140)
    audioSrc,       \* useState<string | null>, an object URL   (App.tsx:141)
    status,         \* useState<ProcessingStatus>               (App.tsx:142)
    statusMessage,  \* useState<string>                         (App.tsx:143)
    lyrics,         \* useState<string>                         (App.tsx:144)
    error,          \* useState<string | null>                  (App.tsx:145)
    progress,       \* useState<number>                         (App.tsx:146)
    runs,           \* the pending handleSubmit invocations, by run id
    started,        \* how many handleSubmit invocations passed the file guard
    nextUrl,        \* the next object URL URL.createObjectURL hands out
    revoked,        \* per object URL, how often URL.revokeObjectURL was called
    requests,       \* per run id, how often ai.models.generateContent was called
    lastOp          \* the handler or continuation that ran last, and on what

vars == <<file, audioSrc, status, statusMessage, lyrics, error, progress,
          runs, started, nextUrl, revoked, requests, lastOp>>

-----------------------------------------------------------------------------
(* Bounds of the model *)

\* handleSubmit invocations per behaviour
MaxRuns == 2
\* object URLs created per behaviour
MaxUrls == 2

-----------------------------------------------------------------------------
(* Values *)

Null == <<>>
Some(v) == <<v>>

IDLE == "IDLE"
PROCESSING == "PROCESSING"
SUCCESS == "SUCCESS"
ERROR == "ERROR"

\* 50 * 1024 * 1024, the ceiling of handleFileChange
MaxFileSize == 50 * 1024 * 1024

FileSizes == {2 * 1024 * 1024, MaxFileSize, MaxFileSize + 1, 60 * 1024 * 1024}
\* a File, by what the handlers read of it
Files == [size : FileSizes]

InitialMessage == "Select an audio file to begin."
ReadingMessage == "Reading audio file..."
AnalyzingMessage == "Analyzing vocals..."
WritingMessage == "Writing lyrics..."

OversizeMessage == <<"File is too large. Please select a file smaller than 50MB.">>
FallbackLyrics == <<"The AI could not find any lyrics in this audio file.">>
UnexpectedMessage == <<"An unexpected error occurred.">>
AiPrefix == <<"An error occurred while communicating with the AI:", " ">>
UnknownMessage == <<"An unknown error occurred during transcription.">>
Sentinel == <<"No vocals found in this track.">>
QuotaMessage == <<"quota exceeded">>
TrimTypeErrorMessage == <<"Cannot read properties of undefined (reading 'trim')">>

\* String.prototype.trim strips these from both ends: the WhiteSpace and
\* LineTerminator code points of ECMAScript (tab, vertical tab, form feed,
\* space, no-break space, byte order mark, the space separators of Unicode;
\* line feed, carriage return, line and paragraph separator).  A code point
\* without an escape in a string here is the piece named "U+<hex>".
Whitespace ==
    {"\t", "U+000B", "\f", " ", "U+00A0", "U+FEFF",
     "U+1680", "U+2000", "U+2001", "U+2002", "U+2003", "U+2004", "U+2005",
     "U+2006", "U+2007", "U+2008", "U+2009", "U+200A", "U+202F", "U+205F",
     "U+3000",
     "\n", "\r", "U+2028", "U+2029"}

\* what the remote model may answer: nothing, whitespace only (a space, a
\* carriage return), text, text wrapped in whitespace (also in CRLF line
\* ends and in no-break spaces), text with whitespace inside, the sentinel,
\* and the sentinel wrapped in whitespace
ResponseTexts ==
    {<<>>, <<" ">>, <<"\r">>, <<"la">>, <<"\n", "la", " ">>,
     <<"\r", "\n", "la", "\r", "\n">>, <<"U+00A0", "la", "U+FEFF">>,
     <<"la", " ", "la">>, Sentinel, <<" ">> \o Sentinel \o <<"\n">>}

\* a thrown or rejected value: an Error instance or not, and the message it
\* carries (<<>> when it carries none)
Failures == [isError : BOOLEAN, message : {<<>>, QuotaMessage}]

\* reader.onerror rejects with the ProgressEvent, which is no Error
ReadFailure == [isError |-> FALSE, message |-> <<>>]
\* response.text.trim() on a response without text
TrimTypeError == [isError |-> TRUE, message |-> TrimTypeErrorMessage]

-----------------------------------------------------------------------------
(* Pure helpers *)

RECURSIVE TrimStart(_)
TrimStart(s) ==
    IF s = <<>> THEN <<>>
    ELSE IF Head(s) \in Whitespace THEN TrimStart(Tail(s))
    ELSE s

RECURSIVE TrimEnd(_)
TrimEnd(s) ==
    IF s = <<>> THEN <<>>
    ELSE IF s[Len(s)] \in Whitespace THEN TrimEnd(SubSeq(s, 1, Len(s) - 1))
    ELSE s

TrimStartOnly(s) == TrimStart(s)
NoTrim(s) == s
\* String.prototype.trim, as transcribeLyrics applies it to response.text
Trim(s) == TrimEnd(TrimStart(s))

WrapFailureByMessage(e) ==
    IF e.message # <<>>
    THEN [isError |-> TRUE, message |-> AiPrefix \o e.message]
    ELSE [isError |-> TRUE, message |-> UnknownMessage]
\* the catch block of transcribeLyrics: the Error it rethrows
WrapFailure(e) ==
    IF e.isError
    THEN [isError |-> TRUE, message |-> AiPrefix \o e.message]
    ELSE [isError |-> TRUE, message |-> UnknownMessage]

\* the catch block of handleSubmit: the message it shows
CatchMessage(e) == IF e.isError THEN e.message ELSE UnexpectedMessage

LyricsForNoFallback(text) == text
\* the lyrics handleSubmit sets for the transcribed text
LyricsFor(text) == IF text = <<>> THEN FallbackLyrics ELSE text

OversizeNeverRejects(f) == FALSE
OversizeInclusive(f) == f.size >= MaxFileSize
\* the size check of handleFileChange
Oversize(f) == f.size > MaxFileSize

isProcessing == status = PROCESSING
showResults == status = SUCCESS \/ status = ERROR

\* URL.revokeObjectURL(u)
Revoke(rev, u) == [rev EXCEPT ![u] = @ + 1]

\* the cleanup of the audioSrc effect, run when a render changes audioSrc
EffectCleanup(rev, old, new) ==
    IF old # new /\ old # Null THEN Revoke(rev, old[1]) ELSE rev

Op(name, f, raw, fail) ==
    [op |-> name, pre |-> status, file |-> f, raw |-> raw, fail |-> fail]

Without(id) == [r \in DOMAIN runs \ {id} |-> runs[r]]

-----------------------------------------------------------------------------
(* Initial state: the component as mounted *)

Init ==
    /\ file = Null
    /\ audioSrc = Null
    /\ status = IDLE
    /\ statusMessage = InitialMessage
    /\ lyrics = <<>>
    /\ error = Null
    /\ progress = 0
    /\ runs = <<>>
    /\ started = 0
    /\ nextUrl = 1
    /\ revoked = [u \in 1..MaxUrls |-> 0]
    /\ requests = [i \in 1..MaxRuns |-> 0]
    /\ lastOp = [op |-> "mount", pre |-> IDLE, file |-> Null, raw |-> Null,
                 fail |-> Null]

-----------------------------------------------------------------------------
(* The handlers *)

handleResetKeepsFile ==
    /\ audioSrc' = Null
    /\ lyrics' = <<>>
    /\ error' = Null
    /\ status' = IDLE
    /\ statusMessage' = InitialMessage
    /\ progress' = 0
    /\ revoked' = EffectCleanup(revoked, audioSrc, Null)
    /\ lastOp' = Op("reset", file, Null, Null)
    /\ UNCHANGED <<file, runs, started, nextUrl, requests>>

handleResetKeepsLyrics ==
    /\ file' = Null
    /\ audioSrc' = Null
    /\ error' = Null
    /\ status' = IDLE
    /\ statusMessage' = InitialMessage
    /\ progress' = 0
    /\ revoked' = EffectCleanup(revoked, audioSrc, Null)
    /\ lastOp' = Op("reset", file, Null, Null)
    /\ UNCHANGED <<lyrics, runs, started, nextUrl, requests>>

handleReset ==
    /\ file' = Null
    /\ audioSrc' = Null
    /\ lyrics' = <<>>
    /\ error' = Null
    /\ status' = IDLE
    /\ statusMessage' = InitialMessage
    /\ progress' = 0
    /\ revoked' = EffectCleanup(revoked, audioSrc, Null)
    /\ lastOp' = Op("reset", file, Null, Null)
    /\ UNCHANGED <<runs, started, nextUrl, requests>>

handleFileChangeNoReset(f) ==
    IF Oversize(f)
    THEN /\ error' = Some(OversizeMessage)
         /\ status' = ERROR
         /\ file' = Null
         /\ lastOp' = Op("reject", Some(f), Null, Null)
         /\ UNCHANGED <<audioSrc, statusMessage, lyrics, progress, runs,
                        started, nextUrl, revoked, requests>>
    ELSE /\ nextUrl <= MaxUrls
         /\ file' = Some(f)
         /\ audioSrc' = Some(nextUrl)
         /\ nextUrl' = nextUrl + 1
         /\ status' = IDLE
         /\ revoked' = EffectCleanup(
                           IF audioSrc # Null THEN Revoke(revoked, audioSrc[1])
                           ELSE revoked,
                           audioSrc, Some(nextUrl))
         /\ lastOp' = Op("select", Some(f), Null, Null)
         /\ UNCHANGED <<lyrics, error, statusMessage, progress, runs,
                        started, requests>>

\* a change event of the file input that carries the file f
handleFileChange(f) ==
    IF Oversize(f)
    THEN /\ error' = Some(OversizeMessage)
         /\ status' = ERROR
         /\ file' = Null
         /\ lastOp' = Op("reject", Some(f), Null, Null)
         /\ UNCHANGED <<audioSrc, statusMessage, lyrics, progress, runs,
                        started, nextUrl, revoked, requests>>
    ELSE /\ nextUrl <= MaxUrls
         \* handleReset(), then the new file and its object URL
         /\ file' = Some(f)
         /\ lyrics' = <<>>
         /\ error' = Null
         /\ statusMessage' = InitialMessage
         /\ progress' = 0
         /\ audioSrc' = Some(nextUrl)
         /\ nextUrl' = nextUrl + 1
         /\ status' = IDLE
         \* line 183 revokes the URL of this render, then the effect cleanup
         /\ revoked' = EffectCleanup(
                           IF audioSrc # Null THEN Revoke(revoked, audioSrc[1])
                           ELSE revoked,
                           audioSrc, Some(nextUrl))
         /\ lastOp' = Op("select", Some(f), Null, Null)
         /\ UNCHANGED <<runs, started, requests>>

handleSubmitNoGuard ==
    /\ started < MaxRuns
    /\ status' = PROCESSING
    /\ error' = Null
    /\ lyrics' = <<>>
    /\ progress' = 0
    /\ statusMessage' = ReadingMessage
    /\ IF file = Null
       THEN /\ lastOp' = Op("submitNoFile", Null, Null, Null)
            /\ UNCHANGED <<runs, started>>
       ELSE /\ started' = started + 1
            /\ runs' = (started + 1) :>
                           [file |-> file[1], pc |-> "read", raw |-> Null,
                            text |-> <<>>]
                       @@ runs
            /\ lastOp' = Op("submit", file, Null, Null)
    /\ UNCHANGED <<file, audioSrc, nextUrl, revoked, requests>>

\* handleSubmit up to its first await: fileToBase64 has been called
handleSubmit ==
    /\ started < MaxRuns
    /\ IF file = Null
       THEN /\ lastOp' = Op("submitNoFile", Null, Null, Null)
            /\ UNCHANGED <<file, audioSrc, status, statusMessage, lyrics,
                           error, progress, runs, started, nextUrl, revoked,
                           requests>>
       ELSE /\ status' = PROCESSING
            /\ error' = Null
            /\ lyrics' = <<>>
            /\ progress' = 0
            /\ statusMessage' = ReadingMessage
            /\ started' = started + 1
            /\ runs' = (started + 1) :>
                           [file |-> file[1], pc |-> "read", raw |-> Null,
                            text |-> <<>>]
                       @@ runs
            /\ lastOp' = Op("submit", file, Null, Null)
            /\ UNCHANGED <<file, audioSrc, nextUrl, revoked, requests>>

-----------------------------------------------------------------------------
(* The continuations of one handleSubmit invocation r *)

FailRunKeepsProgress(r, name, cause, thrown) ==
    /\ error' = Some(CatchMessage(thrown))
    /\ status' = ERROR
    /\ runs' = Without(r)
    /\ lastOp' = Op(name, Some(runs[r].file), runs[r].raw, Some(cause))
    /\ UNCHANGED <<file, audioSrc, statusMessage, lyrics, progress, started,
                   nextUrl, revoked, requests>>

\* the catch block of handleSubmit, entered with the value thrown (cause
\* is the failure it stems from)
FailRun(r, name, cause, thrown) ==
    /\ error' = Some(CatchMessage(thrown))
    /\ status' = ERROR
    /\ progress' = 0
    /\ runs' = Without(r)
    /\ lastOp' = Op(name, Some(runs[r].file), runs[r].raw, Some(cause))
    /\ UNCHANGED <<file, audioSrc, statusMessage, lyrics, started, nextUrl,
                   revoked, requests>>

\* fileToBase64 resolves
ReadDone(r) ==
    /\ runs[r].pc = "read"
    /\ progress' = 25
    /\ runs' = [runs EXCEPT ![r].pc = "wait1"]
    /\ lastOp' = Op("readDone", Some(runs[r].file), Null, Null)
    /\ UNCHANGED <<file, audioSrc, status, statusMessage, lyrics, error,
                   started, nextUrl, revoked, requests>>

ReadFailUnhandled(r) ==
    /\ runs[r].pc = "read"
    /\ runs' = Without(r)
    /\ lastOp' = Op("readFail", Some(runs[r].file), Null, Some(ReadFailure))
    /\ UNCHANGED <<file, audioSrc, status, statusMessage, lyrics, error,
                   progress, started, nextUrl, revoked, requests>>

\* fileToBase64 rejects
ReadFail(r) ==
    /\ runs[r].pc = "read"
    /\ FailRun(r, "readFail", ReadFailure, ReadFailure)

Wait1DoneKeepsMessage(r) ==
    /\ runs[r].pc = "wait1"
    /\ progress' = 50
    /\ runs' = [runs EXCEPT ![r].pc = "wait2"]
    /\ lastOp' = Op("wait1Done", Some(runs[r].file), Null, Null)
    /\ UNCHANGED <<file, audioSrc, status, statusMessage, lyrics, error,
                   started, nextUrl, revoked, requests>>

\* wait(500) is over
Wait1Done(r) ==
    /\ runs[r].pc = "wait1"
    /\ statusMessage' = AnalyzingMessage
    /\ progress' = 50
    /\ runs' = [runs EXCEPT ![r].pc = "wait2"]
    /\ lastOp' = Op("wait1Done", Some(runs[r].file), Null, Null)
    /\ UNCHANGED <<file, audioSrc, status, lyrics, error, started, nextUrl,
                   revoked, requests>>

\* wait(1500) is over: transcribeLyrics is called
Wait2Done(r) ==
    /\ runs[r].pc = "wait2"
    /\ statusMessage' = WritingMessage
    /\ progress' = 75
    /\ runs' = [runs EXCEPT ![r].pc = "remote"]
    /\ requests' = [requests EXCEPT ![r] = @ + 1]
    /\ lastOp' = Op("wait2Done", Some(runs[r].file), Null, Null)
    /\ UNCHANGED <<file, audioSrc, status, lyrics, error, started, nextUrl,
                   revoked>>

RemoteResolvesSucceedsEarly(r, resp) ==
    /\ runs[r].pc = "remote"
    /\ IF resp = Null
       THEN FailRun(r, "remoteFail", TrimTypeError,
                    WrapFailure(TrimTypeError))
       ELSE /\ progress' = 100
            /\ status' = SUCCESS
            /\ runs' = [runs EXCEPT ![r].pc = "wait3", ![r].raw = resp,
                                    ![r].text = Trim(resp[1])]
            /\ lastOp' = Op("remoteDone", Some(runs[r].file), resp, Null)
            /\ UNCHANGED <<file, audioSrc, statusMessage, lyrics, error,
                           started, nextUrl, revoked, requests>>

\* generateContent resolves with a response whose text is resp
\* (Null: the response has no text, and response.text.trim() throws)
RemoteResolves(r, resp) ==
    /\ runs[r].pc = "remote"
    /\ IF resp = Null
       THEN FailRun(r, "remoteFail", TrimTypeError,
                    WrapFailure(TrimTypeError))
       ELSE /\ progress' = 100
            /\ runs' = [runs EXCEPT ![r].pc = "wait3", ![r].raw = resp,
                                    ![r].text = Trim(resp[1])]
            /\ lastOp' = Op("remoteDone", Some(runs[r].file), resp, Null)
            /\ UNCHANGED <<file, audioSrc, status, statusMessage, lyrics,
                           error, started, nextUrl, revoked, requests>>

RemoteRejectsRetries(r, e) ==
    /\ runs[r].pc = "remote"
    /\ IF requests[r] < 2
       THEN /\ requests' = [requests EXCEPT ![r] = @ + 1]
            /\ lastOp' = Op("retry", Some(runs[r].file), Null, Some(e))
            /\ UNCHANGED <<file, audioSrc, status, statusMessage, lyrics,
                           error, progress, runs, started, nextUrl, revoked>>
       ELSE FailRun(r, "remoteFail", e, WrapFailure(e))

\* generateContent rejects with e
RemoteRejects(r, e) ==
    /\ runs[r].pc = "remote"
    /\ FailRun(r, "remoteFail", e, WrapFailure(e))

\* the last wait(500) is over
Wait3Done(r) ==
    /\ runs[r].pc = "wait3"
    /\ lyrics' = LyricsFor(runs[r].text)
    /\ status' = SUCCESS
    /\ runs' = Without(r)
    /\ lastOp' = Op("success", Some(runs[r].file), runs[r].raw, Null)
    /\ UNCHANGED <<file, audioSrc, statusMessage, error, progress, started,
                   nextUrl, revoked, requests>>

RunStep ==
    \/ \E r \in DOMAIN runs : ReadDone(r)
    \/ \E r \in DOMAIN runs : ReadFail(r)
    \/ \E r \in DOMAIN runs : Wait1Done(r)
    \/ \E r \in DOMAIN runs : Wait2Done(r)
    \/ \E r \in DOMAIN runs :
           \E resp \in {Null} \cup {Some(t) : t \in ResponseTexts} :
               RemoteResolves(r, resp)
    \/ \E r \in DOMAIN runs : \E e \in Failures : RemoteRejects(r, e)
    \/ \E r \in DOMAIN runs : Wait3Done(r)

-----------------------------------------------------------------------------
(* The rendered controls *)

\* TRY AGAIN / START OVER, rendered by ResultsScreen
ClickReset == showResults /\ handleReset

\* the file input, rendered unless showResults, disabled while processing
ChooseFile(f) == ~showResults /\ ~isProcessing /\ handleFileChange(f)

\* the TRANSCRIBE button, rendered unless showResults
ClickTranscribeWhileProcessing == ~showResults /\ file # Null /\ handleSubmit
ClickTranscribe ==
    ~showResults /\ file # Null /\ ~isProcessing /\ handleSubmit

Next ==
    \/ ClickReset
    \/ \E f \in Files : ChooseFile(f)
    \/ ClickTranscribe
    \/ RunStep

\* the application as rendered
Spec == Init /\ [][Next]_vars

\* the application as rendered, where every pending file read, timer and
\* remote call eventually completes or fails
SpecFair == Spec /\ WF_vars(RunStep)

\* the pipeline with handleReset invoked in any state (the rendered
\* application offers it only on the results screen)
NextReset ==
    \/ handleReset
    \/ \E f \in Files : ChooseFile(f)
    \/ ClickTranscribe
    \/ RunStep

SpecReset == Init /\ [][NextReset]_vars

\* the pipeline with handleFileChange invoked on a file within the ceiling
\* in any state (the rendered application offers the file input only while
\* neither processing nor showing results)
NextSelect ==
    \/ ClickReset
    \/ \E f \in Files : ~Oversize(f) /\ handleFileChange(f)
    \/ \E f \in Files : ChooseFile(f)
    \/ ClickTranscribe
    \/ RunStep

SpecSelect == Init /\ [][NextSelect]_vars

\* the pipeline with handleSubmit invoked in any state (the rendered
\* application disables TRANSCRIBE without a file and while processing)
NextSubmit ==
    \/ ClickReset
    \/ \E f \in Files : ChooseFile(f)
    \/ handleSubmit
    \/ RunStep

SpecSubmit == Init /\ [][NextSubmit]_vars

-----------------------------------------------------------------------------
(* Properties *)

\* the continuations that end a run
RunEndOps == {"success", "readFail", "remoteFail"}
\* every continuation of a run
ContinuationOps ==
    RunEndOps \cup {"readDone", "wait1Done", "wait2Done", "remoteDone"}

AllWhitespace(s) == \A k \in 1..Len(s) : s[k] \in Whitespace

\* t is s without its leading and trailing whitespace
IsTrimOf(t, s) ==
    \E i, j \in 0..Len(s) :
        /\ i + j <= Len(s)
        /\ t = SubSeq(s, i + 1, Len(s) - j)
        /\ \A k \in 1..i : s[k] \in Whitespace
        /\ \A k \in (Len(s) - j + 1)..Len(s) : s[k] \in Whitespace
        /\ t # <<>> => t[1] \notin Whitespace /\ t[Len(t)] \notin Whitespace

\* C1: a run on a file of at most 50 MiB ends either in SUCCESS with
\* non-empty lyrics and no error, or in ERROR with a non-empty error message
\* and empty lyrics, whatever the read and the remote call did.
C1_RunOutcome ==
    (lastOp.op \in RunEndOps /\ lastOp.file[1].size <= MaxFileSize) =>
        \/ status = SUCCESS /\ lyrics # <<>> /\ error = Null
        \/ status = ERROR /\ error # Null /\ error[1] # <<>> /\ lyrics = <<>>

\* a run has ended in SUCCESS on an empty response
C1_Witness ==
    /\ lastOp.op = "success"
    /\ lastOp.raw = Some(<<>>)
    /\ lastOp.file[1].size <= MaxFileSize
    /\ status = SUCCESS

\* C2: selecting a file above 50 MiB gives ERROR with the oversize message
\* and no selected file, never PROCESSING, and no run (so neither the read
\* nor the remote call) ever works on a file above 50 MiB.
C2_OversizeRejected ==
    /\ (lastOp.op \in {"select", "reject"}
            /\ lastOp.file[1].size > MaxFileSize) =>
          status = ERROR /\ error = Some(OversizeMessage) /\ file = Null
    /\ \A r \in DOMAIN runs : runs[r].file.size <= MaxFileSize
    /\ lastOp.op \in ContinuationOps \cup {"submit"} =>
          lastOp.file[1].size <= MaxFileSize

\* a file above 50 MiB has been selected while a valid one was selected
C2_Witness ==
    /\ lastOp.op = "reject"
    /\ lastOp.file[1].size > MaxFileSize
    /\ audioSrc # Null
    /\ status = ERROR

\* C3: a run starts at progress 0; while the status stays PROCESSING the
\* progress never decreases; a run that reaches SUCCESS leaves progress
\* 100, one that reaches ERROR leaves progress 0.
C3_ProgressMonotone ==
    [][/\ (status # PROCESSING /\ status' = PROCESSING) => progress' = 0
       /\ (status = PROCESSING /\ status' = PROCESSING) =>
              progress' >= progress
       /\ (status = PROCESSING /\ status' = SUCCESS) => progress' = 100
       /\ (status = PROCESSING /\ status' = ERROR) => progress' = 0]_vars

\* a run has failed at the remote call, after progress 75
C3_Witness ==
    /\ lastOp.op = "remoteFail"
    /\ lastOp.pre = PROCESSING
    /\ status = ERROR
    /\ progress = 0

\* C4: right after handleReset, from whatever state, the status is IDLE,
\* lyrics are empty, no error is set, progress is 0, and neither a file nor
\* an object URL is held.
C4_ResetClears ==
    lastOp.op = "reset" =>
        /\ status = IDLE
        /\ lyrics = <<>>
        /\ error = Null
        /\ progress = 0
        /\ file = Null
        /\ audioSrc = Null

\* handleReset has run during PROCESSING, with a file and its URL held
C4_Witness ==
    /\ lastOp.op = "reset"
    /\ lastOp.pre = PROCESSING
    /\ lastOp.file # Null
    /\ status = IDLE

\* C5: after a reset during PROCESSING no continuation of the superseded
\* run changes the state: a continuation that runs while the status is IDLE
\* leaves the status IDLE, lyrics empty, no error and progress 0.
C5_ResetDiscardsRun ==
    (lastOp.op \in ContinuationOps /\ lastOp.pre = IDLE) =>
        status = IDLE /\ lyrics = <<>> /\ error = Null /\ progress = 0

\* C6 as stated: a non-empty response text ends the run in SUCCESS with
\* lyrics equal to that text unchanged.
C6_LyricsAreResponse ==
    (lastOp.op \in RunEndOps /\ lastOp.raw # Null
            /\ lastOp.raw # Some(<<>>)) =>
        status = SUCCESS /\ lyrics = lastOp.raw[1]

\* C6 as amended: a response text that is non-empty once its leading and
\* trailing whitespace is removed ends the run in SUCCESS (a run that got a
\* text never ends in ERROR) with lyrics equal to the text without that
\* whitespace; the exact sentinel is passed through unchanged.
C6_LyricsAreTrimmedResponse ==
    /\ (lastOp.op \in RunEndOps /\ lastOp.raw # Null
            /\ ~AllWhitespace(lastOp.raw[1])) =>
          /\ status = SUCCESS
          /\ error = Null
          /\ IsTrimOf(lyrics, lastOp.raw[1])
    /\ (lastOp.op \in RunEndOps /\ lastOp.raw = Some(Sentinel)) =>
          lyrics = Sentinel

\* a run has ended on a text wrapped in CRLF line ends
C6_Witness ==
    /\ lastOp.op = "success"
    /\ lastOp.raw = Some(<<"\r", "\n", "la", "\r", "\n">>)
    /\ lyrics = <<"la">>

\* C7: a response text that is empty, or empty after trimming, ends the run
\* in SUCCESS with the fallback message as lyrics, never the empty string.
C7_EmptyResponseFallback ==
    (lastOp.op \in RunEndOps /\ lastOp.raw # Null
            /\ AllWhitespace(lastOp.raw[1])) =>
        status = SUCCESS /\ lyrics = FallbackLyrics /\ lyrics # <<>>

\* a run has ended on a response of a lone carriage return
C7_Witness ==
    /\ lastOp.op = "success"
    /\ lastOp.raw = Some(<<"\r">>)
    /\ lyrics = FallbackLyrics

\* C8 as stated: a failed remote call gives ERROR, progress 0, empty lyrics,
\* and the prefix plus the failure's message when the failure carries a
\* message, the unknown-error message when it carries none.
C8_MessageDecides ==
    lastOp.op = "remoteFail" =>
        /\ status = ERROR /\ progress = 0 /\ lyrics = <<>>
        /\ error = IF lastOp.fail[1].message # <<>>
                   THEN Some(AiPrefix \o lastOp.fail[1].message)
                   ELSE Some(UnknownMessage)

\* C8 as amended: a failed remote call gives ERROR, progress 0, empty
\* lyrics, and the prefix plus the failure's message (empty or not) when the
\* failure is an Error instance, the unknown-error message when it is not,
\* whether or not it carries a message.
C8_ErrorInstanceDecides ==
    lastOp.op = "remoteFail" =>
        /\ status = ERROR /\ progress = 0 /\ lyrics = <<>>
        /\ error = IF lastOp.fail[1].isError
                   THEN Some(AiPrefix \o lastOp.fail[1].message)
                   ELSE Some(UnknownMessage)

\* the remote call has failed with an Error saying "quota exceeded"
C8_Witness ==
    /\ lastOp.op = "remoteFail"
    /\ lastOp.fail = Some([isError |-> TRUE, message |-> QuotaMessage])
    /\ error = Some(AiPrefix \o QuotaMessage)

\* C9: lyrics and error are never both set, and ERROR has empty lyrics.
C9_NeverLyricsAndError ==
    /\ ~(lyrics # <<>> /\ error # Null)
    /\ status = ERROR => lyrics = <<>>

\* a file above 50 MiB has been selected after a run that set lyrics or an
\* error and a reset
C9_Witness ==
    /\ lastOp.op = "reject"
    /\ started > 0
    /\ status = ERROR
    /\ error # Null

\* C10: at most one run is pending, and handleSubmit starts a run only when
\* the status is not PROCESSING.
C10_OneRunInFlight ==
    /\ Cardinality(DOMAIN runs) <= 1
    /\ lastOp.op = "submit" => lastOp.pre # PROCESSING

\* a second run is pending after the first one has ended
C10_Witness ==
    /\ started = 2
    /\ Cardinality(DOMAIN runs) = 1
    /\ status = PROCESSING

\* the request count of the run whose continuation ran last (the rendered
\* application has one run at a time: the one started last)
LastRunRequests == requests[started]

\* C11: a run sends at most one request to the remote model, none when the
\* read fails and exactly one when it ends after the remote call; a request
\* is sent only by the step of a pending run that enters "Writing lyrics",
\* and after a failure no run is pending that could send another.
C11_OneRequestPerRun ==
    /\ [](\A i \in 1..MaxRuns : requests[i] <= 1)
    /\ [](lastOp.op = "readFail" => LastRunRequests = 0)
    /\ [](lastOp.op \in {"remoteDone", "remoteFail", "success"} =>
             LastRunRequests = 1)
    /\ [](status = ERROR => DOMAIN runs = {})
    /\ [][requests' # requests =>
             /\ status = PROCESSING /\ progress = 50
             /\ requests' = [requests EXCEPT ![started] = 1]]_vars

\* a run has failed at the remote call after its one request
C11_Witness ==
    /\ lastOp.op = "remoteFail"
    /\ status = ERROR
    /\ requests[started] = 1
    /\ DOMAIN runs = {}

\* C12: every object URL is revoked exactly once over its lifetime: not
\* while it is the current playback handle, once when it has been replaced
\* or cleared, and never twice.
C12_ReleasedExactlyOnce ==
    \A u \in 1..MaxUrls :
        /\ revoked[u] <= 1
        /\ audioSrc = Some(u) => revoked[u] = 0
        /\ (u < nextUrl /\ audioSrc # Some(u)) => revoked[u] = 1

\* C13: a selected file of exactly 52,428,800 bytes (or less) is adopted
\* with status IDLE; one of 52,428,801 bytes or more is rejected with
\* ERROR and no selected file, and no run ever reads such a file.
C13_CeilingExclusive ==
    /\ (lastOp.op \in {"select", "reject"}
            /\ lastOp.file[1].size <= 52428800) =>
          file = lastOp.file /\ status = IDLE /\ error = Null
    /\ (lastOp.op \in {"select", "reject"}
            /\ lastOp.file[1].size >= 52428801) =>
          file = Null /\ status = ERROR
    /\ \A r \in DOMAIN runs : runs[r].file.size <= 52428800

\* a file of exactly 52,428,800 bytes has been selected and adopted
C13_Witness ==
    /\ lastOp.op = "select"
    /\ lastOp.file[1].size = 52428800
    /\ file = Some([size |-> 52428800])
    /\ status = IDLE

\* C14: with every read, timer and remote call eventually completing or
\* failing, PROCESSING always leads to SUCCESS or ERROR.
C14_RunsTerminate ==
    (status = PROCESSING) ~> (status = SUCCESS \/ status = ERROR)

\* a failed file read has been caught and has led to ERROR
C14_Witness ==
    /\ lastOp.op = "readFail"
    /\ lastOp.pre = PROCESSING
    /\ status = ERROR
    /\ error = Some(UnexpectedMessage)

\* the place of the observed stage message and progress in the order of
\* the stages (0: not a stage of the order)
StageIndex ==
    CASE statusMessage = ReadingMessage /\ progress = 0 -> 1
      [] statusMessage = ReadingMessage /\ progress = 25 -> 2
      [] statusMessage = AnalyzingMessage /\ progress = 50 -> 3
      [] statusMessage = WritingMessage /\ progress = 75 -> 4
      [] statusMessage = WritingMessage /\ progress = 100 -> 5
      [] OTHER -> 0

\* C15: a run enters PROCESSING at ("Reading audio file...", 0) and, while
\* PROCESSING, each step moves to the next of (Reading, 25), (Analyzing,
\* 50), (Writing, 75), (Writing, 100); (Reading, 25) is set by the
\* completed read, the remote call is made exactly on entering (Writing,
\* 75), progress 100 is set only by a remote call that returned a text, and
\* SUCCESS is entered only from (Writing, 100).
C15_StageOrder ==
    /\ [](status = PROCESSING => StageIndex # 0)
    /\ [][/\ (status # PROCESSING /\ status' = PROCESSING) =>
                  StageIndex' = 1 /\ DOMAIN runs' # {}
          /\ (status = PROCESSING /\ status' = PROCESSING) =>
                  StageIndex' = StageIndex + 1
          /\ (StageIndex = 1 /\ StageIndex' = 2) => lastOp'.op = "readDone"
          /\ (requests' # requests) <=>
                  (status = PROCESSING /\ StageIndex = 3 /\ StageIndex' = 4)
          /\ (progress # 100 /\ progress' = 100) =>
                  lastOp'.op = "remoteDone" /\ lastOp'.raw # Null
          /\ (status # SUCCESS /\ status' = SUCCESS) =>
                  /\ status = PROCESSING
                  /\ StageIndex = 5 /\ StageIndex' = 5]_vars

\* the remote call has just been made, at "Writing lyrics..." and 75
C15_Witness ==
    /\ status = PROCESSING
    /\ statusMessage = WritingMessage
    /\ progress = 75
    /\ requests[started] = 1
    /\ lastOp.op = "wait2Done"

\* C17: in SUCCESS or ERROR no continuation is pending, and status, lyrics,
\* error and progress change only by a reset (or a new file selection),
\* which gives IDLE.
C17_TerminalStable ==
    /\ [](showResults => DOMAIN runs = {})
    /\ [][(showResults /\ <<status, lyrics, error, progress>>'
                              # <<status, lyrics, error, progress>>) =>
              lastOp'.op \in {"reset", "select"} /\ status' = IDLE]_vars

\* a run has ended in SUCCESS and nothing is pending
C17_Witness ==
    /\ showResults
    /\ lastOp.op = "success"
    /\ progress = 100
    /\ DOMAIN runs = {}

\* C19: an object URL is held exactly when a file is selected.
C19_HandleIffFile == (audioSrc # Null) <=> (file # Null)

\* C20: the only step out of SUCCESS or ERROR is a reset, which leaves no
\* selected file, and every submit directly follows a file selection.
C20_ReselectBeforeRerun ==
    [][/\ (showResults /\ status' # status) =>
              lastOp'.op = "reset" /\ file' = Null
       /\ lastOp'.op = "submit" => lastOp.op = "select"]_vars

\* a second run has been submitted, after the first one ended
C20_Witness ==
    /\ started = 2
    /\ lastOp.op = "submit"
    /\ lastOp.pre = IDLE
    /\ file # Null

\* C16: right after a file within the ceiling is selected, in whatever
\* state, the status is IDLE, progress 0, lyrics empty, no error set, the
\* initial message shown, the selected file is the new one and the playback
\* handle is a fresh object URL made for it.
C16_SelectResetsAndAdopts ==
    (lastOp.op \in {"select", "reject"}
            /\ lastOp.file[1].size <= MaxFileSize) =>
        /\ status = IDLE
        /\ progress = 0
        /\ lyrics = <<>>
        /\ error = Null
        /\ statusMessage = InitialMessage
        /\ file = lastOp.file
        /\ audioSrc = Some(nextUrl - 1)
        /\ revoked[nextUrl - 1] = 0

\* a second file has been selected while the run on the first was pending
C16_Witness ==
    /\ lastOp.op = "select"
    /\ lastOp.pre = PROCESSING
    /\ audioSrc = Some(2)
    /\ status = IDLE

SubmitOps == {"submit", "submitNoFile"}

\* C18: handleSubmit without a selected file changes neither status, stage
\* message, progress, lyrics nor error and starts no run (no read, no
\* request); with a file it gives PROCESSING, progress 0, empty lyrics, no
\* error, and starts one run.
C18_SubmitGuard ==
    [][lastOp'.op \in SubmitOps =>
          IF file = Null
          THEN UNCHANGED <<status, statusMessage, progress, lyrics, error,
                           runs, started, requests>>
          ELSE /\ status' = PROCESSING
               /\ progress' = 0
               /\ lyrics' = <<>>
               /\ error' = Null
               /\ started' = started + 1
               /\ DOMAIN runs' = DOMAIN runs \cup {started + 1}]_vars

\* handleSubmit has run without a file, on the error of an oversize file
C18_Witness ==
    /\ lastOp.op = "submitNoFile"
    /\ lastOp.pre = ERROR
    /\ status = ERROR
    /\ error = Some(OversizeMessage)
    /\ file = Null

====
